---- MODULE Spec2Model ----
(***************************************************************************)
(* Per-call streaming session core of the telephony media gateway:         *)
(* routers/media.py (dispatch loop), handlers.py (event handlers and the   *)
(* response task), state.py (session registry), stt.py (segmenter),        *)
(* llm.py (reply generation and history), tts.py (output streamer).        *)
(*                                                                         *)
(* One asyncio event loop runs every dispatch loop and every response      *)
(* task.  An action of this module is one run of a coroutine between two   *)
(* suspension points: a dispatch loop from `receive_text` to the next      *)
(* `receive_text` or to the collaborator call it awaits (transcription,    *)
(* reply generation), a response task from one frame write to the next.    *)
(* `send_text` is the transport's "send one message" primitive: atomic.    *)
(***************************************************************************)
EXTENDS Integers, Sequences, FiniteSets, TLC

\* ---------------------------------------------------------------- bounds
NumConns == 2       \* WebSocket connections accepted by /media
MaxObj == 2         \* CallState objects ever constructed
MaxTask == 2        \* response tasks ever created
MaxChunks == 1      \* media frames of one synthesized response
MaxBuf == 2         \* chunks held in one audio buffer
MaxTime == 2        \* clock ticks
TickMs == 1500      \* milliseconds of one clock tick
MaxPrior == 5       \* earlier turns of a call that is already under way
MaxSample == 11     \* largest magnitude of a 16-bit PCM sample of a block
MaxBlock == 2       \* samples of one block
ChunkSize == 2      \* config.tts_chunk_size (320 in the code), in bytes
MaxAudio == 3       \* bytes of one chunk the synthesis stream yields
MaxYield == 2       \* chunks the synthesis stream yields

\* ------------------------------------------------------- program constants
silence_threshold_ms == 1500
max_history_messages == 10

Conns == 1..NumConns
Sids == {"A"}
\* the stream ids when one connection carries frames of two calls
CallSids == {"A", "B"}
NoSid == ""                       \* a missing / empty streamSid (falsy)
NoTime == -1                      \* last_speech_time = None
NoName == <<>>                    \* a missing mark name (None)

\* f"mark_{n}": the formatting is injective in n
MarkName(n) == <<"mark_", n>>

SpeechChunks == {"s1"}
\* media payloads: missing/empty, speech, silence, one that fails to decode
Payloads == SpeechChunks \cup {"", "sil", "bad"}
\* inbound mark frames: {"mark": {"name": ...}} and/or a top-level "name"
MarkFrames ==
    {[mark_name |-> n, name |-> NoName] :
        n \in {MarkName(k) : k \in 1..MaxTask} \cup {<<"zz", 0>>, NoName}}
    \cup {[mark_name |-> NoName, name |-> MarkName(1)]}
\* results of the collaborators: a text, or "raise"
SttResults == {"hi", " ", "", "raise"}
LlmResults == {"ok", " ", "", "raise"}
LLM_FALLBACK_MESSAGE == "fallback"

VARIABLES
    call_states,    \* CallStateManager._call_states: stream sid -> CallState (0: no entry)
    objs,           \* the CallState objects constructed so far, by identity
    tasks,          \* the response tasks created so far, by identity
    conns,          \* per connection: the dispatch loop's position and locals
    wire,           \* per connection: the outbound frames written, in write order
    now,            \* time.time(), in ticks
    stop_seen,      \* history: the CallState objects a noted stop event was handled for
    codec,          \* a block of samples on its way through the audio codec
    stream          \* one synthesized audio stream on its way through the output streamer

vars == <<call_states, objs, tasks, conns, wire, now, stop_seen, codec, stream>>

\* ------------------------------------------------------------- state.py
\* created_by, transcribed and submitted are history fields: the connection
\* whose loop constructed the object, whether a transcription of its audio has
\* returned, and whether audio now in the buffer was handed to transcription
NewCallState(sid, c) ==
    [stream_sid |-> sid,
     created_by |-> c,
     transcribed |-> FALSE,
     submitted |-> FALSE,
     current_tts_task |-> 0,
     mark_id |-> 0,
     pending_marks |-> {},
     history |-> <<>>,
     audio_buffer |-> <<>>,
     last_speech_time |-> NoTime]

\* a registry in which no stream id is ever found
existsNever(cs, sid) == FALSE

exists(cs, sid) == cs[sid] # 0

\* asyncio.Task.done(): returned, raised, or cancellation delivered
TaskDone(ts, t) == ts[t].pc \in {"done", "failed", "cancelled"}

\* get_or_create: the registry and the objects after the call
GocStates(cs, os, sid) ==
    IF exists(cs, sid) THEN cs ELSE [cs EXCEPT ![sid] = Len(os) + 1]

\* a get_or_create that builds the new session from the last one constructed
GocObjsCarries(cs, os, sid, c) ==
    IF exists(cs, sid) THEN os
    ELSE IF os = <<>> THEN Append(os, NewCallState(sid, c))
    ELSE Append(os, [os[Len(os)] EXCEPT !.stream_sid = sid, !.created_by = c])

GocObjs(cs, os, sid, c) ==
    IF exists(cs, sid) THEN os ELSE Append(os, NewCallState(sid, c))

\* remove: cancel the running task, reset history, drop segmenter state, delete
RemoveTasks(cs, os, ts, sid) ==
    IF ~exists(cs, sid) THEN ts
    ELSE LET t == os[cs[sid]].current_tts_task IN
         IF t # 0 /\ ~TaskDone(ts, t)
         THEN [ts EXCEPT ![t].must_cancel = TRUE]
         ELSE ts

\* a remove that deletes the entry and leaves the collaborators' state
RemoveObjsKeeps(cs, os, sid) == os

RemoveObjs(cs, os, sid) ==
    IF ~exists(cs, sid) THEN os
    ELSE [os EXCEPT ![cs[sid]].history = <<>>,
                    ![cs[sid]].submitted = FALSE,
                    ![cs[sid]].audio_buffer = <<>>,
                    ![cs[sid]].last_speech_time = NoTime]

RemoveStates(cs, sid) ==
    IF ~exists(cs, sid) THEN cs ELSE [cs EXCEPT ![sid] = 0]

\* --------------------------------------------------------------- llm.py
\* a strip that keeps the whitespace
StripNothing(s) == s

Strip(s) == IF s = " " THEN "" ELSE s

\* a trim that drops one message when over the cap
TrimOne(h) ==
    IF Len(h) > max_history_messages THEN Tail(h) ELSE h

Trim(h) ==
    IF Len(h) > max_history_messages
    THEN SubSeq(h, Len(h) - max_history_messages + 1, Len(h))
    ELSE h

AppendTurn(h, user_message, ai_response) ==
    Trim(h \o << <<"user", user_message>>, <<"assistant", ai_response>> >>)

\* --------------------------------------------------------------- stt.py
SilenceElapsed(st, t) ==
    st.last_speech_time # NoTime
    /\ (t - st.last_speech_time) * TickMs >= silence_threshold_ms

UtteranceComplete(st, t) ==
    SilenceElapsed(st, t) /\ Len(st.audio_buffer) > 0

\* a speech branch that keeps the timestamp of the first chunk
SpeechKeepsFirst(st, chunk, t) ==
    [st EXCEPT !.last_speech_time = IF @ = NoTime THEN t ELSE @,
               !.audio_buffer = Append(@, chunk)]

\* a speech branch that stamps the time and drops the chunk
SpeechStampsOnly(st, chunk, t) ==
    [st EXCEPT !.last_speech_time = t]

\* the speech branch of process_audio_chunk
Speech(st, chunk, t) ==
    [st EXCEPT !.last_speech_time = t,
               !.audio_buffer = Append(@, chunk)]

\* ------------------------------------------------- the mu-law codec
\* no block in the codec: the state of the codec while calls are handled
IdleCodec == [stage |-> "idle", pcm |-> <<>>, mulaw |-> <<>>, out |-> <<>>]

Abs(x) == IF x < 0 THEN -x ELSE x

\* floor(127 * ln(1 + 255 * m / 32768) / ln(256)) for a magnitude m < 25:
\* the value reaches 1, 2, 3, 4 at m = 5.73, 11.73, 17.98, 24.52
Compressed(m) ==
    IF m < 6 THEN 0 ELSE IF m < 12 THEN 1 ELSE IF m < 18 THEN 2 ELSE 3

\* tts.py _pcm_to_mulaw for one sample: sign * compressed * 127.0 + 128.0,
\* clipped, then astype(uint8), which truncates towards zero (127.x -> 127)
pcm_to_mulaw(p) ==
    IF p >= 0 THEN 128 + Compressed(p) ELSE 127 - Compressed(-p)

\* astype(int16) of a float outside the int16 range is undefined: the
\* conversions in use give the low 16 bits of the saturated or the "integer
\* indefinite" 32/64-bit result, or saturate to the 16-bit range
CastOutOfRange == {-32768, -1, 0, 32767}

\* the low 16 bits of v as a signed number
Wrap16(v) == ((v + 32768) % 65536) - 32768

\* stt.py _mulaw_to_pcm for one byte: `mulaw_array - 128` is uint8
\* arithmetic (it wraps), so the sign is 0 or 1 and the exponent is the
\* wrapped difference itself; 256.0 ** d overflows to inf from d = 128
mulaw_to_pcm(b) ==
    LET d == (b - 128) % 256 IN
    IF d = 0 THEN {0}
    ELSE IF d = 1 THEN {32767}                          \* (1/255) * 255 * 32767
    ELSE IF d = 2 THEN CastOutOfRange \cup {Wrap16(257 * 32767)}
    ELSE CastOutOfRange

\* the width of the encoder's steps for the magnitudes below 18
QuantStep == 6

\* ------------------------------------------------ tts.py, the streamer
\* no stream in the streamer: its state while calls are handled
IdleStream == [stage |-> "idle", audio |-> <<>>, ci |-> 1, off |-> 0, frames |-> <<>>]

\* base64.b64encode(chunk).decode('utf-8'): injective in the chunk, and not
\* the chunk itself
b64encode(chunk) == <<"b64", chunk>>

b64decode(payload) == payload[2]

Min(a, b) == IF a < b THEN a ELSE b

\* a slice that stops one byte short: audio_chunk[i:i + chunk_size - 1]
SliceShort(audio_chunk, i) ==
    SubSeq(audio_chunk, i + 1, Min(i + ChunkSize - 1, Len(audio_chunk)))

\* audio_chunk[i:i + self.chunk_size]
Slice(audio_chunk, i) ==
    SubSeq(audio_chunk, i + 1, Min(i + ChunkSize, Len(audio_chunk)))

\* ---------------------------------------------------------- handlers.py
\* mark_obj.get("name") or data.get("name")
MarkNameOf(frame) ==
    IF frame.mark_name # NoName THEN frame.mark_name ELSE frame.name

\* an acknowledgement that empties the set
handle_mark_clears(st, frame) == [st EXCEPT !.pending_marks = {}]

handle_mark(st, frame) ==
    LET mark_name == MarkNameOf(frame) IN
    IF mark_name # NoName /\ mark_name \in st.pending_marks
    THEN [st EXCEPT !.pending_marks = @ \ {mark_name}]
    ELSE st

\* a counter that is read but not advanced
NextMarkSame(st) == st.mark_id

\* call_state.mark_id += 1
NextMark(st) == st.mark_id + 1

\* bargein is a history field: the cancellation came from a media event that
\* found the task running
NewTask(o, c, n, text) ==
    [call_state |-> o, websocket |-> c, mark_id |-> MarkName(n), text |-> text,
     pc |-> "created", must_cancel |-> FALSE, sent |-> 0, bargein |-> FALSE]

\* mark_id += 1; current_tts_task = create_task(stream_tts_response(...))
Launch(os, ts, o) ==
    [os EXCEPT ![o].mark_id = NextMark(os[o]), ![o].current_tts_task = Len(ts) + 1]

\* a task that does not record its mark id
AddPendingNothing(st, mark_id) == st

\* call_state.pending_marks.add(mark_id)
AddPending(st, mark_id) == [st EXCEPT !.pending_marks = @ \cup {mark_id}]

\* ------------------------------------------------------ routers/media.py
\* a loop between frames: stream_sid is the loop's local variable
IdleConn(sid) ==
    [pc |-> "recv", stream_sid |-> sid, obj |-> 0, utt |-> <<>>, text |-> ""]

ClosedConn(sid) ==
    [pc |-> "closed", stream_sid |-> sid, obj |-> 0, utt |-> <<>>, text |-> ""]

CanResolve(sid) == exists(call_states, sid) \/ Len(objs) < MaxObj

InFlight == Cardinality({c \in Conns : conns[c].pc \in {"stt", "llm"}})

\* the bound on response tasks: audio is fed while a turn can still be answered
TurnBudget == Len(tasks) + InFlight < MaxTask

Init ==
    /\ call_states = [s \in Sids |-> 0]
    /\ objs = <<>>
    /\ tasks = <<>>
    /\ conns = [c \in Conns |-> IdleConn(NoSid)]
    /\ wire = [c \in Conns |-> <<>>]
    /\ now = 0
    /\ stop_seen = {}
    /\ codec = IdleCodec
    /\ stream = IdleStream

\* the finally block: `if stream_sid: call_state_manager.remove(stream_sid)`
ExitLoop(c, sid, cs, os, ts) ==
    /\ call_states' = (IF sid # NoSid THEN RemoveStates(cs, sid) ELSE cs)
    /\ objs' = (IF sid # NoSid THEN RemoveObjs(cs, os, sid) ELSE os)
    /\ tasks' = (IF sid # NoSid THEN RemoveTasks(cs, os, ts, sid) ELSE ts)
    /\ conns' = [conns EXCEPT ![c] = ClosedConn(sid)]
    /\ UNCHANGED <<wire, now, stop_seen, codec, stream>>

\* receive_text raises WebSocketDisconnect
RecvDisconnect(c) ==
    /\ conns[c].pc = "recv"
    /\ ExitLoop(c, conns[c].stream_sid, call_states, objs, tasks)

\* json.loads raises on a frame that is not JSON: `except Exception`
RecvMalformed(c) ==
    /\ conns[c].pc = "recv"
    /\ ExitLoop(c, conns[c].stream_sid, call_states, objs, tasks)

\* a frame without streamSid treated as fatal
RecvNoSidFatal(c) ==
    /\ conns[c].pc = "recv"
    /\ ExitLoop(c, conns[c].stream_sid, call_states, objs, tasks)

\* a frame without streamSid: `continue`
RecvNoSid(c) ==
    /\ conns[c].pc = "recv"
    /\ conns' = [conns EXCEPT ![c].stream_sid = NoSid]
    /\ UNCHANGED <<call_states, objs, tasks, wire, now, stop_seen, codec, stream>>

\* a logging handler that also restarts the session's mark counter
RecvLogOnlyResets(c, sid) ==
    /\ conns[c].pc = "recv"
    /\ CanResolve(sid)
    /\ call_states' = GocStates(call_states, objs, sid)
    /\ objs' = [GocObjs(call_states, objs, sid, c)
                   EXCEPT ![call_states'[sid]].mark_id = 0]
    /\ conns' = [conns EXCEPT ![c].stream_sid = sid]
    /\ UNCHANGED <<tasks, wire, now, codec, stream>>

\* start, stop and unrecognized events: the handler only logs
RecvLogOnly(c, sid) ==
    /\ conns[c].pc = "recv"
    /\ CanResolve(sid)
    /\ call_states' = GocStates(call_states, objs, sid)
    /\ objs' = GocObjs(call_states, objs, sid, c)
    /\ conns' = [conns EXCEPT ![c].stream_sid = sid]
    /\ UNCHANGED <<tasks, wire, now, codec, stream>>

RecvStart(c, sid) == RecvLogOnly(c, sid) /\ UNCHANGED stop_seen

RecvUnknown(c, sid) == RecvLogOnly(c, sid) /\ UNCHANGED stop_seen

\* a stop event that tears the session down
RecvStopTeardown(c, sid) ==
    /\ conns[c].pc = "recv"
    /\ exists(call_states, sid)
    /\ call_states' = RemoveStates(call_states, sid)
    /\ objs' = RemoveObjs(call_states, objs, sid)
    /\ tasks' = RemoveTasks(call_states, objs, tasks, sid)
    /\ conns' = [conns EXCEPT ![c].stream_sid = sid]
    /\ stop_seen' = stop_seen \cup {call_states[sid]}
    /\ UNCHANGED <<wire, now, codec, stream>>

\* handle_stop only logs; the event is noted in the history variable
RecvStop(c, sid) ==
    /\ RecvLogOnly(c, sid)
    /\ stop_seen' = stop_seen \cup {call_states'[sid]}

RecvMark(c, sid, frame) ==
    /\ conns[c].pc = "recv"
    /\ CanResolve(sid)
    /\ UNCHANGED <<tasks, wire, now, stop_seen, codec, stream>>
    /\ conns' = [conns EXCEPT ![c].stream_sid = sid]
    /\ call_states' = GocStates(call_states, objs, sid)
    /\ LET os == GocObjs(call_states, objs, sid, c)
           o == call_states'[sid]
       IN  objs' = [os EXCEPT ![o] = handle_mark(os[o], frame)]

\* handle_media.  A running current_tts_task takes the barge-in branch, whose
\* first statement builds the clear frame from EVENT_KEY, a name handlers.py
\* never imports: NameError, raised outside handle_media's try block, so it
\* reaches the loop's `except Exception` and the finally block.
BargeIn(ts, st) ==
    st.current_tts_task # 0 /\ ~TaskDone(ts, st.current_tts_task)

NoteBargeIn(ts, st) == [ts EXCEPT ![st.current_tts_task].bargein = TRUE]

RecvMedia(c, sid, payload) ==
    /\ conns[c].pc = "recv"
    /\ CanResolve(sid)
    /\ LET cs == GocStates(call_states, objs, sid)
           os == GocObjs(call_states, objs, sid, c)
           o == cs[sid]
           st == os[o]
       IN
       IF BargeIn(tasks, st)
       THEN ExitLoop(c, sid, cs, os, NoteBargeIn(tasks, st))
       ELSE
         /\ call_states' = cs
         /\ UNCHANGED <<tasks, wire, now, stop_seen, codec, stream>>
         /\ CASE payload = "" ->
                   \* `if not audio_payload: return`
                   /\ objs' = os
                   /\ conns' = [conns EXCEPT ![c] = IdleConn(sid)]
              [] payload = "bad" ->
                   \* decode raises: AudioProcessingError, logged by handle_media
                   /\ objs' = os
                   /\ conns' = [conns EXCEPT ![c] = IdleConn(sid)]
              [] payload \in SpeechChunks ->
                   /\ Len(st.audio_buffer) < MaxBuf
                   /\ TurnBudget
                   /\ objs' = [os EXCEPT ![o] = Speech(st, payload, now)]
                   /\ conns' = [conns EXCEPT ![c] = IdleConn(sid)]
              [] payload = "sil" ->
                   /\ IF UtteranceComplete(st, now)
                      THEN \* await self._transcribe_audio(stream_state.audio_buffer, ...)
                           /\ TurnBudget
                           /\ objs' = [os EXCEPT ![o].submitted = TRUE]
                           /\ conns' = [conns EXCEPT ![c] =
                                  [pc |-> "stt", stream_sid |-> sid, obj |-> o,
                                   utt |-> st.audio_buffer, text |-> ""]]
                      ELSE /\ objs' = os
                           /\ conns' = [conns EXCEPT ![c] = IdleConn(sid)]

\* a handler that takes the error of a failed transcription for a transcript
RepliesAnyway(res, transcription) == transcription # ""

\* `if transcription:` is reached only when process_audio_chunk returned
Replies(res, transcription) == res # "raise" /\ transcription # ""

\* the transcription returns (or raises) and process_audio_chunk resumes
SttReturn(c, res) ==
    /\ conns[c].pc = "stt"
    /\ LET o == conns[c].obj
           transcription == Strip(res)
       IN
       /\ IF res = "raise"
          THEN \* STTError, re-raised as AudioProcessingError before the reset
               objs' = objs
          ELSE \* stream_state.audio_buffer = bytearray(); last_speech_time = None
               objs' = [objs EXCEPT ![o].audio_buffer = <<>>,
                                    ![o].last_speech_time = NoTime,
                                    ![o].transcribed = TRUE,
                                    ![o].submitted = FALSE]
       /\ IF Replies(res, transcription)
          THEN \* await call_state.llm_agent.generate_response(transcription, ...)
               conns' = [conns EXCEPT ![c].pc = "llm", ![c].text = transcription]
          ELSE conns' = [conns EXCEPT ![c] = IdleConn(conns[c].stream_sid)]
    /\ UNCHANGED <<call_states, tasks, wire, now, stop_seen, codec, stream>>

\* a turn that is abandoned when the reply generation fails
SpeaksOnSuccess(failed, ai_response) == ~failed /\ ai_response # ""

\* `if llm_response:` on the normal path, always on the `except LLMError` path
Speaks(failed, ai_response) == failed \/ ai_response # ""

\* one agent, and so one history, for every session
RememberShared(os, o, user_message, ai_response) ==
    [p \in DOMAIN os |->
        [os[p] EXCEPT !.history = AppendTurn(@, user_message, ai_response)]]

\* the history is the one of the session's own agent
Remember(os, o, user_message, ai_response) ==
    [os EXCEPT ![o].history = AppendTurn(@, user_message, ai_response)]

\* the reply generation returns (or raises) and handle_media resumes
LlmReturn(c, res) ==
    /\ conns[c].pc = "llm"
    /\ LET o == conns[c].obj
           failed == res \in {"", "raise"}     \* empty content raises LLMError too
           ai_response == Strip(res)
           os == IF failed THEN objs
                 ELSE Remember(objs, o, conns[c].text, ai_response)
           text == IF failed THEN LLM_FALLBACK_MESSAGE ELSE ai_response
       IN
       IF Speaks(failed, ai_response)
       THEN /\ objs' = Launch(os, tasks, o)
            /\ tasks' = Append(tasks, NewTask(o, c, objs'[o].mark_id, text))
       ELSE /\ objs' = os
            /\ tasks' = tasks
    /\ conns' = [conns EXCEPT ![c] = IdleConn(conns[c].stream_sid)]
    /\ UNCHANGED <<call_states, wire, now, stop_seen, codec, stream>>

\* ------------------------------------- stream_tts_response / stream_to_twilio
\* task is a history field: the response task that wrote the frame
OutFrame(t, event, name) ==
    [event |-> event, streamSid |-> objs[tasks[t].call_state].stream_sid,
     name |-> name, task |-> t]

Send(w, c, frame) == [w EXCEPT ![c] = Append(@, frame)]

\* send_text on a websocket whose endpoint has returned raises
Open(c) == conns[c].pc # "closed"

Runnable(t) == t \in 1..Len(tasks) /\ ~TaskDone(tasks, t)

\* a task that ignores a pending cancellation
ProceedsAlways(task) == TRUE

\* the task runs its next step normally unless a cancellation is pending
Proceeds(task) == ~task.must_cancel

\* a task that has ended: its coroutine frame (chunk index, pending
\* cancellation request) is gone, its outcome stays
Ended(task, outcome) == [task EXCEPT !.pc = outcome, !.must_cancel = FALSE, !.sent = 0]

\* a cancellation request that is swallowed: the task neither runs nor ends
TaskCancelledLost(t) ==
    /\ Runnable(t) /\ ~Proceeds(tasks[t])
    /\ UNCHANGED vars

\* the CancelledError is thrown into the task at its suspension point; no
\* handler of the task catches it (it is not an Exception)
TaskCancelled(t) ==
    /\ Runnable(t) /\ ~Proceeds(tasks[t])
    /\ tasks' = [tasks EXCEPT ![t] = Ended(@, "cancelled")]
    /\ UNCHANGED <<call_states, objs, conns, wire, now, stop_seen, codec, stream>>

\* first run of the task: pending_marks.add(mark_id), then up to the first
\* await of the synthesis stream
TaskStart(t) ==
    /\ Runnable(t) /\ Proceeds(tasks[t]) /\ tasks[t].pc = "created"
    /\ tasks' = [tasks EXCEPT ![t].pc = "streaming"]
    /\ objs' = [objs EXCEPT ![tasks[t].call_state] = AddPending(@, tasks[t].mark_id)]
    /\ UNCHANGED <<call_states, conns, wire, now, stop_seen, codec, stream>>

\* one media frame; a failed send is logged by stream_to_twilio, which returns
TaskWriteMedia(t) ==
    /\ Runnable(t) /\ Proceeds(tasks[t]) /\ tasks[t].pc = "streaming"
    /\ tasks[t].sent < MaxChunks
    /\ IF Open(tasks[t].websocket)
       THEN /\ wire' = Send(wire, tasks[t].websocket, OutFrame(t, "media", NoName))
            /\ tasks' = [tasks EXCEPT ![t].sent = @ + 1]
       ELSE /\ wire' = wire
            /\ tasks' = [tasks EXCEPT ![t] = Ended(@, "failed")]
    /\ UNCHANGED <<call_states, objs, conns, now, stop_seen, codec, stream>>

\* a streamer that writes the mark and goes on streaming
TaskWriteMarkGoesOn(t) ==
    /\ Runnable(t) /\ Proceeds(tasks[t]) /\ tasks[t].pc = "streaming"
    /\ Len(wire[tasks[t].websocket]) < 2 * MaxTask
    /\ wire' = Send(wire, tasks[t].websocket, OutFrame(t, "mark", tasks[t].mark_id))
    /\ tasks' = [tasks EXCEPT ![t].sent = 0]
    /\ UNCHANGED <<call_states, objs, conns, now, stop_seen, codec, stream>>

\* the synthesis stream is exhausted: the mark frame, and the task returns
TaskWriteMark(t) ==
    /\ Runnable(t) /\ Proceeds(tasks[t]) /\ tasks[t].pc = "streaming"
    /\ IF Open(tasks[t].websocket)
       THEN /\ wire' = Send(wire, tasks[t].websocket, OutFrame(t, "mark", tasks[t].mark_id))
            /\ tasks' = [tasks EXCEPT ![t] = Ended(@, "done")]
       ELSE /\ wire' = wire
            /\ tasks' = [tasks EXCEPT ![t] = Ended(@, "failed")]
    /\ UNCHANGED <<call_states, objs, conns, now, stop_seen, codec, stream>>

\* a streamer that acknowledges a failed synthesis with the mark frame
TaskSynthFailMarks(t) ==
    /\ Runnable(t) /\ Proceeds(tasks[t]) /\ tasks[t].pc = "streaming"
    /\ wire' = Send(wire, tasks[t].websocket, OutFrame(t, "mark", tasks[t].mark_id))
    /\ tasks' = [tasks EXCEPT ![t] = Ended(@, "failed")]
    /\ UNCHANGED <<call_states, objs, conns, now, stop_seen, codec, stream>>

\* the synthesis stream raises TTSError: stream_to_twilio logs it and returns
TaskSynthFail(t) ==
    /\ Runnable(t) /\ Proceeds(tasks[t]) /\ tasks[t].pc = "streaming"
    /\ tasks' = [tasks EXCEPT ![t] = Ended(@, "failed")]
    /\ UNCHANGED <<call_states, objs, conns, wire, now, stop_seen, codec, stream>>

\* time passes; the clock is only read against an open utterance's timestamp
Tick ==
    /\ now < MaxTime
    /\ \E s \in DOMAIN call_states :
          exists(call_states, s) /\ objs[call_states[s]].last_speech_time # NoTime
    /\ now' = now + 1
    /\ UNCHANGED <<call_states, objs, tasks, conns, wire, stop_seen, codec, stream>>

\* ---------------------------------------------------------- specifications
\* the steps the event loop takes on its own: a response task's next step,
\* and a dispatch loop resuming when the collaborator call it awaits ends
TaskStep ==
    \/ \E t \in 1..MaxTask : TaskStart(t)
    \/ \E t \in 1..MaxTask : TaskWriteMedia(t)
    \/ \E t \in 1..MaxTask : TaskWriteMark(t)
    \/ \E t \in 1..MaxTask : TaskSynthFail(t)
    \/ \E t \in 1..MaxTask : TaskCancelled(t)

Resume ==
    \/ \E c \in Conns, r \in SttResults : SttReturn(c, r)
    \/ \E c \in Conns, r \in LlmResults : LlmReturn(c, r)

\* what one dispatch loop can read next, stop events apart
LoopOf(c, S) ==
    \/ RecvDisconnect(c)
    \/ RecvMalformed(c)
    \/ RecvNoSid(c)
    \/ \E sid \in S : RecvStart(c, sid)
    \/ \E sid \in S : RecvUnknown(c, sid)
    \/ \E sid \in S, f \in MarkFrames : RecvMark(c, sid, f)
    \/ \E sid \in S, p \in Payloads : RecvMedia(c, sid, p)

Loop(c) == LoopOf(c, Sids)

\* one call on one connection
Next ==
    \/ Loop(1)
    \/ \E sid \in Sids : RecvStop(1, sid)
    \/ Resume
    \/ TaskStep
    \/ Tick

Spec == Init /\ [][Next]_vars

\* the event loop runs every ready coroutine, and a collaborator call ends
\* (it returns, raises or times out); the carrier is free to send nothing more
FairSpec == Spec /\ WF_vars(TaskStep) /\ WF_vars(Resume)

\* every connection carries frames of the same stream id: the registry is
\* keyed by stream id alone, so the loops resolve the same session
NextShared ==
    \/ \E c \in Conns : Loop(c)
    \/ Resume
    \/ TaskStep
    \/ Tick

SharedSpec == Init /\ [][NextShared]_vars

\* one connection whose frames carry two stream ids: the loop resolves the
\* session of each frame by the id the frame carries
InitMulti ==
    /\ call_states = [s \in CallSids |-> 0]
    /\ objs = <<>>
    /\ tasks = <<>>
    /\ conns = [c \in Conns |-> IdleConn(NoSid)]
    /\ wire = [c \in Conns |-> <<>>]
    /\ now = 0
    /\ stop_seen = {}
    /\ codec = IdleCodec
    /\ stream = IdleStream

NextMulti ==
    \/ LoopOf(1, CallSids)
    \/ Resume
    \/ TaskStep
    \/ Tick

MultiSpec == InitMulti /\ [][NextMulti]_vars

\* the codec on its own: a block of PCM samples is encoded (the output path)
\* and the bytes are decoded (the input path)
Samples == (0 - MaxSample)..MaxSample

Blocks == UNION {[1..n -> Samples] : n \in 1..MaxBlock}

InitCodec ==
    /\ call_states = [s \in Sids |-> 0]
    /\ objs = <<>>
    /\ tasks = <<>>
    /\ conns = [c \in Conns |-> IdleConn(NoSid)]
    /\ wire = [c \in Conns |-> <<>>]
    /\ now = 0
    /\ stop_seen = {}
    /\ \E block \in Blocks :
          codec = [stage |-> "pcm", pcm |-> block, mulaw |-> <<>>, out |-> <<>>]
    /\ stream = IdleStream

Encode ==
    /\ codec.stage = "pcm"
    /\ codec' = [codec EXCEPT !.stage = "mulaw",
                              !.mulaw = [i \in DOMAIN codec.pcm |-> pcm_to_mulaw(codec.pcm[i])]]
    /\ UNCHANGED <<call_states, objs, tasks, conns, wire, now, stop_seen, stream>>

Decode ==
    /\ codec.stage = "mulaw"
    /\ \E out \in [DOMAIN codec.mulaw ->
                        UNION {mulaw_to_pcm(codec.mulaw[i]) : i \in DOMAIN codec.mulaw}] :
          /\ \A i \in DOMAIN out : out[i] \in mulaw_to_pcm(codec.mulaw[i])
          /\ codec' = [codec EXCEPT !.stage = "decoded", !.out = out]
    /\ UNCHANGED <<call_states, objs, tasks, conns, wire, now, stop_seen, stream>>

NextCodec == Encode \/ Decode

CodecSpec == InitCodec /\ [][NextCodec]_vars

\* the output streamer on its own: the synthesis stream yields non-empty
\* chunks of audio, stream_to_twilio writes them to the connection
Bytes == {"x", "y"}

AudioChunks == UNION {[1..n -> Bytes] : n \in 1..MaxAudio}

Audios == UNION {[1..n -> AudioChunks] : n \in 0..MaxYield}

InitStream ==
    /\ call_states = [s \in Sids |-> 0]
    /\ objs = <<>>
    /\ tasks = <<>>
    /\ conns = [c \in Conns |-> IdleConn(NoSid)]
    /\ wire = [c \in Conns |-> <<>>]
    /\ now = 0
    /\ stop_seen = {}
    /\ codec = IdleCodec
    /\ \E audio \in Audios :
          stream = [stage |-> "streaming", audio |-> audio, ci |-> 1, off |-> 0,
                    frames |-> <<>>]

\* one pass of the inner loop: the slice at offset off of the current chunk,
\* sent as one media frame if it is not empty
StreamMedia ==
    /\ stream.stage = "streaming"
    /\ stream.ci <= Len(stream.audio)
    /\ LET audio_chunk == stream.audio[stream.ci]
           chunk == Slice(audio_chunk, stream.off)
           more == stream.off + ChunkSize < Len(audio_chunk)
       IN  stream' = [stream EXCEPT
               !.frames = IF chunk # <<>>
                          THEN Append(@, [event |-> "media", payload |-> b64encode(chunk)])
                          ELSE @,
               !.off = IF more THEN @ + ChunkSize ELSE 0,
               !.ci = IF more THEN @ ELSE @ + 1]
    /\ UNCHANGED <<call_states, objs, tasks, conns, wire, now, stop_seen, codec>>

\* the synthesis stream is exhausted: the mark frame
StreamMark ==
    /\ stream.stage = "streaming"
    /\ stream.ci > Len(stream.audio)
    /\ stream' = [stream EXCEPT !.stage = "done",
                                !.frames = Append(@, [event |-> "mark", payload |-> <<>>])]
    /\ UNCHANGED <<call_states, objs, tasks, conns, wire, now, stop_seen, codec>>

NextStream == StreamMedia \/ StreamMark

StreamSpec == InitStream /\ [][NextStream]_vars

\* a call that is already under way: the session is registered and its
\* history holds the pairs of k earlier turns (transcript t<i>, and a reply
\* that was whitespace only, so stored empty and never spoken)
PriorText(i) ==
    CASE i = 1 -> "t1" [] i = 2 -> "t2" [] i = 3 -> "t3"
      [] i = 4 -> "t4" [] i = 5 -> "t5" [] OTHER -> "t6"

PriorHistory(k) ==
    [i \in 1..(2 * k) |->
        IF i % 2 = 1 THEN <<"user", PriorText((i + 1) \div 2)>>
        ELSE <<"assistant", "">>]

PriorTurns ==
    {k \in 0..MaxPrior : 2 * k <= max_history_messages}

InitUnderWay ==
    /\ call_states = [s \in Sids |-> 1]
    /\ \E k \in PriorTurns :
          objs = <<[NewCallState("A", 1) EXCEPT !.history = PriorHistory(k),
                                                !.transcribed = (k > 0)]>>
    /\ tasks = <<>>
    /\ conns = [c \in Conns |-> IF c = 1 THEN IdleConn("A") ELSE IdleConn(NoSid)]
    /\ wire = [c \in Conns |-> <<>>]
    /\ now = 0
    /\ stop_seen = {}
    /\ codec = IdleCodec
    /\ stream = IdleStream

HistorySpec == InitUnderWay /\ [][Next]_vars

\* ------------------------------------------------------------ properties
MarkWritten(t) ==
    \E c \in Conns : \E i \in DOMAIN wire[c] :
        wire[c][i].event = "mark" /\ wire[c][i].task = t

MediaWritten(t) ==
    \E c \in Conns : \E i \in DOMAIN wire[c] :
        wire[c][i].event = "media" /\ wire[c][i].task = t

TasksOf(o) == {t \in DOMAIN tasks : tasks[t].call_state = o}

\* a task that is neither finished nor asked to cancel
Running(t) == ~TaskDone(tasks, t) /\ ~tasks[t].must_cancel

\* C1: when a media event is processed for a session whose response task is
\* running, one clear frame is written to the connection, the task is
\* cancelled, the chunk is still fed to the segmenter, the session stays
\* registered and the dispatch loop goes on.
C1_BargeInClearsAndContinues ==
    [][\A c \in Conns, sid \in Sids, p \in Payloads :
         (/\ RecvMedia(c, sid, p)
          /\ exists(call_states, sid)
          /\ BargeIn(tasks, objs[call_states[sid]]))
         => LET o == call_states[sid]
                t == objs[o].current_tts_task
            IN  /\ Len(wire'[c]) = Len(wire[c]) + 1
                /\ wire'[c][Len(wire'[c])].event = "clear"
                /\ tasks'[t].must_cancel \/ tasks'[t].pc = "cancelled"
                /\ p \in SpeechChunks => objs'[o].last_speech_time = now
                /\ exists(call_states', sid)
                /\ conns'[c].pc # "closed"]_vars

\* C2: no mark frame carrying the mark id of a response interrupted by
\* barge-in is ever written: a task whose cancellation a media event
\* requested has written no mark frame, and writes none afterwards.
C2_NoMarkOfInterruptedResponse ==
    \A t \in DOMAIN tasks : tasks[t].bargein => ~MarkWritten(t)

\* a response interrupted in mid-stream: its media went out, the barge-in
\* cancellation was delivered
C2_Witness ==
    \E t \in DOMAIN tasks :
        tasks[t].bargein /\ tasks[t].pc = "cancelled" /\ MediaWritten(t)

\* C3: at most one response task is running per session at any time.
C3_OneRunningTaskPerSession ==
    \A o \in DOMAIN objs : Cardinality({t \in TasksOf(o) : Running(t)}) <= 1

Pending(o) == objs[o].pending_marks

Registered(o) == \E s \in DOMAIN call_states : call_states[s] = o

C5_PendingIdsWereEmitted ==
    \A o \in DOMAIN objs : \A m \in Pending(o) :
        \E t \in TasksOf(o) : tasks[t].mark_id = m /\ MarkWritten(t)

\* C6: when a connection's dispatch loop exits, no session that loop
\* resolved (here: created) is left in the registry.
C6_ExitRemovesResolvedSession ==
    [][\A c \in Conns :
         (conns[c].pc # "closed" /\ conns'[c].pc = "closed")
         => \A s \in Sids :
               (exists(call_states, s) /\ objs[call_states[s]].created_by = c)
               => ~exists(call_states', s)]_vars

C8_MarkIdsMonotoneDistinct ==
    [][/\ \A o \in DOMAIN objs : objs'[o].mark_id >= objs[o].mark_id
       /\ \A t1 \in DOMAIN tasks' :
            /\ \E n \in 1..objs'[tasks'[t1].call_state].mark_id :
                  tasks'[t1].mark_id = MarkName(n)
            /\ \A t2 \in DOMAIN tasks' :
                  (t1 # t2 /\ tasks'[t1].call_state = tasks'[t2].call_state)
                  => tasks'[t1].mark_id # tasks'[t2].mark_id]_vars

\* two responses were launched in one session
C8_Witness ==
    \E o \in DOMAIN objs : objs[o].mark_id = 2 /\ Cardinality(TasksOf(o)) = 2

\* C9: processing a mark event removes the named id from the session's
\* pending set if it is there and changes nothing else; a name that is not
\* in the set (unknown, already acknowledged, missing) changes nothing; in
\* both cases no error is raised and the loop goes on.
C9_MarkRemovesOnlyNamedId ==
    [][\A c \in Conns, sid \in Sids, f \in MarkFrames :
         RecvMark(c, sid, f)
         => LET os == GocObjs(call_states, objs, sid, c)
                o == call_states'[sid]
            IN  /\ objs'[o].pending_marks = os[o].pending_marks \ {MarkNameOf(f)}
                /\ [objs'[o] EXCEPT !.pending_marks = {}]
                      = [os[o] EXCEPT !.pending_marks = {}]
                /\ \A o2 \in DOMAIN os : o2 # o => objs'[o2] = os[o2]
                /\ tasks' = tasks /\ wire' = wire
                /\ exists(call_states', sid)
                /\ conns'[c].pc = "recv"]_vars

\* a mark was acknowledged while its response was still streaming, and
\* another id stayed pending
C9_Witness ==
    \E t \in DOMAIN tasks :
        /\ tasks[t].pc = "streaming" /\ Running(t)
        /\ tasks[t].mark_id \notin Pending(tasks[t].call_state)
        /\ Pending(tasks[t].call_state) # {}

\* C10: a frame with no stream id creates and looks up no session, runs no
\* handler, changes no session's state, and the loop goes on.
C10_FrameWithoutSidIgnored ==
    [][\A c \in Conns :
         RecvNoSid(c)
         => /\ call_states' = call_states
            /\ objs' = objs
            /\ tasks' = tasks
            /\ wire' = wire
            /\ conns'[c].pc = "recv"]_vars

\* a loop that created a session and launched its response then read a frame
\* without stream id: the session is registered, the task goes on
C10_Witness ==
    \E c \in Conns : \E s \in Sids :
        /\ conns[c].pc = "recv" /\ conns[c].stream_sid = NoSid
        /\ exists(call_states, s)
        /\ objs[call_states[s]].created_by = c
        /\ objs[call_states[s]].current_tts_task # 0
        /\ Running(objs[call_states[s]].current_tts_task)

\* C11: a frame that cannot be parsed is skipped: the registry, every
\* session and every task are as before and the loop reads the next frame.
C11_MalformedFrameSkipped ==
    [][\A c \in Conns :
         (RecvMalformed(c) /\ conns[c].stream_sid \in Sids
            /\ exists(call_states, conns[c].stream_sid))
         => /\ call_states' = call_states
            /\ objs' = objs
            /\ tasks' = tasks
            /\ conns'[c].pc = "recv"]_vars

WellFormed(h) ==
    /\ Len(h) <= max_history_messages
    /\ Len(h) % 2 = 0
    /\ \A i \in 1..Len(h) :
          h[i][1] = (IF i % 2 = 1 THEN "user" ELSE "assistant")

\* g is h with whole pairs dropped from its oldest end
DropsOldestPairs(h, g) ==
    \E k \in 0..(Len(h) \div 2) : g = SubSeq(h, 2 * k + 1, Len(h))

\* C12: every history has at most max_history_messages messages, an even
\* number of them, alternating user / assistant from a user message; a step
\* leaves a history as it is, empties it (teardown), or appends one (user,
\* assistant) pair and drops whole pairs from the oldest end.
C12_HistoryWellFormed ==
    [][\A o \in DOMAIN objs' :
         /\ WellFormed(objs'[o].history)
         /\ o \in DOMAIN objs =>
              LET h == objs[o].history
                  g == objs'[o].history
              IN  \/ g = h
                  \/ g = <<>>
                  \/ /\ Len(g) >= 2
                     /\ DropsOldestPairs(h, SubSeq(g, 1, Len(g) - 2))]_vars

\* the cap was exceeded and the oldest pair is gone: ten messages, the
\* newest pair is a turn answered "ok", the first earlier turn is missing
C12_Witness ==
    \E o \in DOMAIN objs :
        LET h == objs[o].history IN
        /\ Len(h) = max_history_messages
        /\ h[Len(h)] = <<"assistant", "ok">>
        /\ h[1] = <<"user", "t2">>

LlmFailures == {"", "raise"}

\* C13: when the reply generation fails for a non-empty transcript, exactly
\* one response task is launched; it streams LLM_FALLBACK_MESSAGE under the
\* next mark id of the session, which no earlier task of the session carries.
C13_FallbackTaskOnLlmFailure ==
    [][\A c \in Conns, r \in LlmFailures :
         (LlmReturn(c, r) /\ conns[c].text # "")
         => LET o == conns[c].obj
                t == Len(tasks) + 1
            IN  /\ Len(tasks') = t
                /\ \A u \in 1..Len(tasks) : tasks'[u] = tasks[u]
                /\ tasks'[t].text = LLM_FALLBACK_MESSAGE
                /\ tasks'[t].call_state = o
                /\ tasks'[t].websocket = c
                /\ tasks'[t].pc = "created"
                /\ tasks'[t].mark_id = MarkName(objs[o].mark_id + 1)
                /\ objs'[o].mark_id = objs[o].mark_id + 1
                /\ objs'[o].current_tts_task = t
                /\ \A u \in TasksOf(o) : tasks[u].mark_id # tasks'[t].mark_id]_vars

\* a fallback response was streamed to its end
C13_Witness ==
    \E t \in 1..Len(tasks) :
        /\ tasks[t].text = LLM_FALLBACK_MESSAGE
        /\ tasks[t].pc = "done"
        /\ MarkWritten(t)

\* C14: a turn answered with the fallback extends the history with the pair
\* (user transcript, fallback text), as a successful turn does with its reply.
C14_FallbackTurnInHistory ==
    [][\A c \in Conns, r \in LlmFailures :
         LlmReturn(c, r)
         => LET o == conns[c].obj IN
            objs'[o].history =
                AppendTurn(objs[o].history, conns[c].text, LLM_FALLBACK_MESSAGE)]_vars

BlankTranscripts == {"", " "}

\* C15: an empty or whitespace-only transcript abandons the turn: no reply
\* is requested, no response task is created, no frame is written, and the
\* history, the mark counter, the pending set and the task slot keep their
\* values.
C15_BlankTranscriptAbandonsTurn ==
    [][\A c \in Conns, r \in BlankTranscripts :
         SttReturn(c, r)
         => LET o == conns[c].obj IN
            /\ conns'[c].pc = "recv"
            /\ tasks' = tasks
            /\ wire' = wire
            /\ call_states' = call_states
            /\ objs'[o].history = objs[o].history
            /\ objs'[o].mark_id = objs[o].mark_id
            /\ objs'[o].pending_marks = objs[o].pending_marks
            /\ objs'[o].current_tts_task = objs[o].current_tts_task]_vars

\* a transcription returned and nothing followed: no task, no frame, no
\* history, the loop is back at the next frame
C15_Witness ==
    /\ Len(objs) = 1
    /\ Registered(1)
    /\ objs[1].transcribed
    /\ objs[1].history = <<>>
    /\ objs[1].mark_id = 0
    /\ objs[1].pending_marks = {}
    /\ tasks = <<>>
    /\ wire[1] = <<>>
    /\ conns[1].pc = "recv"

\* the positions of connection c's outbound frames that task t wrote
FramesOf(c, t) == {i \in DOMAIN wire[c] : wire[c][i].task = t}

\* C16: a response writes its frames to its own connection only, at most one
\* mark frame, and nothing after the mark; a response that streamed to its
\* end has written exactly one mark frame, carrying its mark id and the
\* session's stream id, after all its media frames.
C16_MediaThenOneMark ==
    \A t \in DOMAIN tasks :
        LET c == tasks[t].websocket IN
        /\ \A d \in Conns \ {c} : FramesOf(d, t) = {}
        /\ \A k \in FramesOf(c, t) :
              wire[c][k].event = "mark"
              => /\ \A i \in FramesOf(c, t) \ {k} :
                       wire[c][i].event = "media" /\ i < k
                 /\ wire[c][k].name = tasks[t].mark_id
                 /\ wire[c][k].streamSid = objs[tasks[t].call_state].stream_sid
        /\ tasks[t].pc = "done"
              => \E k \in FramesOf(c, t) : wire[c][k].event = "mark"

\* a response streamed media and then its mark, and is done
C16_Witness ==
    \E t \in DOMAIN tasks :
        /\ tasks[t].pc = "done"
        /\ MediaWritten(t)
        /\ MarkWritten(t)

\* C17: a synthesis failure writes nothing and leaves the registry, the
\* sessions and the dispatch loops as they are; a response that has failed
\* has no mark frame and writes no further frame.
C17_SynthesisFailureNoMark ==
    [][\A t \in DOMAIN tasks :
         /\ TaskSynthFail(t)
            => /\ wire' = wire
               /\ call_states' = call_states
               /\ objs' = objs
               /\ conns' = conns
               /\ tasks'[t].pc = "failed"
         /\ tasks[t].pc = "failed"
            => /\ tasks'[t].pc = "failed"
               /\ ~MarkWritten(t)
               /\ \A c \in Conns :
                     {i \in DOMAIN wire'[c] : wire'[c][i].task = t} = FramesOf(c, t)]_vars

\* a response failed after a media frame while its connection is open (so
\* the synthesis failed, not the send), its session is still registered and
\* the loop is reading frames
C17_Witness ==
    \E t \in DOMAIN tasks :
        /\ tasks[t].pc = "failed"
        /\ MediaWritten(t)
        /\ ~MarkWritten(t)
        /\ conns[tasks[t].websocket].pc = "recv"
        /\ Registered(tasks[t].call_state)

\* the session a frame for sid resolves to, as it was before the frame
\* (a fresh one when the frame creates it)
Before(sid, c) ==
    IF exists(call_states, sid) THEN objs[call_states[sid]] ELSE NewCallState(sid, c)

\* C18: a silence chunk that completes an utterance emits the buffered
\* speech chunks in arrival order, and once the utterance has been processed
\* the buffer is empty and the timestamp absent, so that the silence chunks
\* that follow emit nothing more.
C18_OneUtteranceThenReset ==
    [][\A c \in Conns :
         /\ \A sid \in Sids :
               (RecvMedia(c, sid, "sil") /\ conns'[c].pc = "stt")
               => conns'[c].utt = Before(sid, c).audio_buffer
         /\ \A r \in SttResults :
               SttReturn(c, r)
               => /\ objs'[conns[c].obj].audio_buffer = <<>>
                  /\ objs'[conns[c].obj].last_speech_time = NoTime]_vars

\* C19: a speech chunk sets the timestamp to the time of that chunk, and a
\* silence chunk completes an utterance only if the timestamp is set, at
\* least silence_threshold_ms have passed since it, and the buffer is not
\* empty.
C19_TimeoutFromLatestSpeech ==
    [][\A c \in Conns, sid \in Sids :
         /\ \A p \in SpeechChunks :
               (RecvMedia(c, sid, p) /\ conns'[c].pc = "recv")
               => /\ objs'[call_states'[sid]].last_speech_time = now
                  /\ objs'[call_states'[sid]].audio_buffer
                        = Append(Before(sid, c).audio_buffer, p)
         /\ (RecvMedia(c, sid, "sil") /\ conns'[c].pc = "stt")
               => /\ Before(sid, c).last_speech_time # NoTime
                  /\ (now - Before(sid, c).last_speech_time) * TickMs
                        >= silence_threshold_ms
                  /\ Before(sid, c).audio_buffer # <<>>]_vars

\* two speech chunks of the first utterance, the first at time 0 (the clock
\* only advances while a timestamp is set), the second at time 1; the
\* utterance is completed at time 2, one threshold after the second chunk
C19_Witness ==
    \E c \in Conns :
        /\ conns[c].pc = "stt"
        /\ Len(conns[c].utt) = 2
        /\ ~objs[conns[c].obj].transcribed
        /\ objs[conns[c].obj].last_speech_time = 1
        /\ now = 2

\* C20: a chunk that fails to decode is still appended to the audio buffer;
\* the timestamp, the registry and the tasks are as before and the loop
\* reads the next frame.
C20_UndecodableChunkBuffered ==
    [][\A c \in Conns, sid \in Sids :
         (RecvMedia(c, sid, "bad") /\ conns'[c].pc = "recv")
         => /\ objs'[call_states'[sid]].audio_buffer
                  = Append(Before(sid, c).audio_buffer, "bad")
            /\ objs'[call_states'[sid]].last_speech_time
                  = Before(sid, c).last_speech_time
            /\ tasks' = tasks]_vars

\* C21: when the transcription of a completed utterance fails, no reply is
\* requested, no response task is launched, no frame is written, the
\* history, the mark counter, the pending set and the task slot keep their
\* values, the session stays registered and the loop reads the next frame.
C21_SttFailureAbortsTurnOnly ==
    [][\A c \in Conns :
         SttReturn(c, "raise")
         => LET o == conns[c].obj IN
            /\ conns'[c].pc = "recv"
            /\ tasks' = tasks
            /\ wire' = wire
            /\ call_states' = call_states
            /\ objs'[o].history = objs[o].history
            /\ objs'[o].mark_id = objs[o].mark_id
            /\ objs'[o].pending_marks = objs[o].pending_marks
            /\ objs'[o].current_tts_task = objs[o].current_tts_task]_vars

\* the buffered audio was handed to transcription, the loop is back at the
\* next frame with that audio still buffered (so the transcription failed),
\* and the session is registered without any task or history
C21_Witness ==
    /\ Len(objs) = 1
    /\ Registered(1)
    /\ objs[1].submitted
    /\ objs[1].audio_buffer # <<>>
    /\ objs[1].history = <<>>
    /\ objs[1].mark_id = 0
    /\ tasks = <<>>
    /\ conns[1].pc = "recv"

\* C22: get_or_create for a registered stream id returns the registered
\* session and constructs nothing, so a second call in a row changes
\* nothing; the session registered under an id is replaced only after it was
\* removed, and it carries that id.
C22_GetOrCreateIdempotent ==
    [][\A sid \in Sids :
         /\ \A c \in Conns, d \in Conns :
               LET cs == GocStates(call_states, objs, sid)
                   os == GocObjs(call_states, objs, sid, c)
               IN  /\ cs[sid] \in DOMAIN os
                   /\ os[cs[sid]].stream_sid = sid
                   /\ GocStates(cs, os, sid) = cs
                   /\ GocObjs(cs, os, sid, d) = os
                   /\ call_states[sid] # 0 => (cs = call_states /\ os = objs)
         /\ (call_states[sid] # 0 /\ call_states'[sid] # 0)
               => /\ call_states'[sid] = call_states[sid]
                  /\ Len(objs') = Len(objs)
         /\ Len(objs') >= Len(objs)]_vars

\* two speech frames for the same stream id were buffered in the one session
\* ever constructed
C22_Witness ==
    /\ Len(objs) = 1
    /\ Registered(1)
    /\ Len(objs[1].audio_buffer) = 2

\* C23: remove, which a dispatch loop calls when it ends with a stream id,
\* on a registered id asks the session's unfinished response task to cancel,
\* empties the session's history and segmenter state and deletes the entry;
\* on an unregistered id it changes no registry entry, session or task.
C23_RemoveTearsDown ==
    [][\A c \in Conns :
         (conns[c].pc # "closed" /\ conns'[c].pc = "closed"
            /\ conns'[c].stream_sid \in Sids)
         => LET s == conns'[c].stream_sid
                o == call_states[s]
            IN  /\ call_states'[s] = 0
                /\ o = 0 => (call_states' = call_states /\ objs' = objs
                             /\ \A t \in DOMAIN tasks :
                                   tasks'[t].must_cancel = tasks[t].must_cancel)
                /\ o # 0 =>
                     /\ objs'[o].history = <<>>
                     /\ objs'[o].audio_buffer = <<>>
                     /\ objs'[o].last_speech_time = NoTime
                     /\ \A t \in DOMAIN tasks :
                           (t = objs[o].current_tts_task /\ ~TaskDone(tasks, t))
                           => tasks'[t].must_cancel]_vars

\* a loop ended while the response of its session was running and no
\* barge-in was under way: the task was asked to cancel by remove, and the
\* session is unregistered with its history and segmenter state empty
C23_Witness ==
    \E t \in DOMAIN tasks :
        LET o == tasks[t].call_state IN
        /\ tasks[t].must_cancel
        /\ ~tasks[t].bargein
        /\ ~Registered(o)
        /\ objs[o].current_tts_task = t
        /\ objs[o].history = <<>>
        /\ objs[o].audio_buffer = <<>>
        /\ objs[o].last_speech_time = NoTime

\* C24: a step changes the state of at most one session (its history, audio
\* buffer, timestamp, mark counter, pending marks, task slot, its tasks and
\* its registry entry): every other session is as before.
C24_StepTouchesOneSession ==
    [][LET changed == {o \in DOMAIN objs : objs'[o] # objs[o]}
           created == DOMAIN objs' \ DOMAIN objs
           stepped == {tasks'[t].call_state : t \in
                          {u \in DOMAIN tasks' :
                              u \notin DOMAIN tasks \/ tasks'[u] # tasks[u]}}
           entries == {call_states[s] : s \in
                          {r \in DOMAIN call_states :
                              call_states'[r] # call_states[r]}}
                      \cup
                      {call_states'[s] : s \in
                          {r \in DOMAIN call_states :
                              call_states'[r] # call_states[r]}}
       IN  Cardinality((changed \cup created \cup stepped \cup entries) \ {0}) <= 1]_vars

\* two sessions are registered; one has had a turn and holds a history and
\* an issued mark id, the other is as constructed
C24_Witness ==
    \E o \in DOMAIN objs, p \in DOMAIN objs :
        /\ o # p
        /\ Registered(o) /\ Registered(p)
        /\ objs[o].history # <<>>
        /\ objs[o].mark_id = 1
        /\ objs[p] = NewCallState(objs[p].stream_sid, 1)

\* C25: a session is mutated by one dispatch loop only: a step of a
\* dispatch loop that changes a session is a step of the loop that
\* constructed it.
C25_OnlyOwnLoopMutates ==
    [][\A o \in DOMAIN objs :
         objs'[o] # objs[o]
         => \A c \in Conns : conns'[c] # conns[c] => c = objs[o].created_by]_vars

\* C26: at every stage of a turn (transcription, reply generation,
\* synthesis and playback) the dispatch loop of the session can take the
\* next inbound media frame: a loop that has not ended is never held by a
\* turn in production.
C26_LoopReadsDuringTurn ==
    \A c \in Conns :
        conns[c].pc # "closed"
        => ENABLED (\E sid \in Sids, p \in Payloads : RecvMedia(c, sid, p))

\* C27: a response task is launched for a session only when every earlier
\* response task of that session has ended (returned, failed, or had its
\* cancellation delivered), so the frames of two responses of a session
\* never interleave.
C27_LaunchAfterPreviousEnded ==
    [][Len(tasks') > Len(tasks)
       => \A t \in DOMAIN tasks :
             tasks[t].call_state = tasks'[Len(tasks')].call_state
             => TaskDone(tasks, t)]_vars

\* C28: every sample of a block that was encoded and then decoded differs
\* from the original by at most one quantization step (stated for the
\* samples whose decoding involves no undefined conversion).
C28_RoundTripWithinOneStep ==
    codec.stage = "decoded"
    => \A i \in DOMAIN codec.pcm :
          Cardinality(mulaw_to_pcm(codec.mulaw[i])) = 1
          => Abs(codec.out[i] - codec.pcm[i]) <= QuantStep

\* C29: whatever the reply generation returns or raises for the transcript
\* of a completed utterance, exactly one response task is launched, and it
\* streams the generated reply or the fallback text.
C29_EveryTurnIsAnswered ==
    [][\A c \in Conns, r \in LlmResults :
         LlmReturn(c, r)
         => /\ Len(tasks') = Len(tasks) + 1
            /\ tasks'[Len(tasks')].call_state = conns[c].obj
            /\ tasks'[Len(tasks')].text \in {r, LLM_FALLBACK_MESSAGE}]_vars

\* C30: buffered audio is handed to transcription at most once: when a
\* silence chunk completes an utterance, nothing in the buffer has been
\* submitted before (the buffer was reset whatever the earlier outcome).
C30_AudioSubmittedOnce ==
    [][\A c \in Conns, sid \in Sids :
         (RecvMedia(c, sid, "sil") /\ conns'[c].pc = "stt")
         => ~Before(sid, c).submitted]_vars

C32_BargeInClearsSlot ==
    [][\A c \in Conns, sid \in Sids, p \in Payloads :
         (/\ RecvMedia(c, sid, p)
          /\ exists(call_states, sid)
          /\ BargeIn(tasks, objs[call_states[sid]]))
         => objs'[call_states[sid]].current_tts_task = 0]_vars

RECURSIVE Flatten(_)
\* the concatenation of a sequence of byte sequences
Flatten(ss) == IF ss = <<>> THEN <<>> ELSE Head(ss) \o Flatten(Tail(ss))

\* the decoded payloads of the media frames written, in write order
MediaPayloads ==
    LET f[i \in 0..Len(stream.frames)] ==
            IF i = 0 THEN <<>>
            ELSE IF stream.frames[i].event = "media"
                 THEN Append(f[i - 1], b64decode(stream.frames[i].payload))
                 ELSE f[i - 1]
    IN  f[Len(stream.frames)]

\* C33: every media frame written carries a payload that is not empty and
\* holds at most ChunkSize bytes; when the response has streamed to its end
\* the payloads, concatenated in write order, are the synthesized audio.
C33_FramesCarryTheAudio ==
    /\ \A i \in DOMAIN MediaPayloads :
          Len(MediaPayloads[i]) \in 1..ChunkSize
    /\ stream.stage = "done"
          => Flatten(MediaPayloads) = Flatten(stream.audio)

\* a stream of two chunks of three bytes was written to its end: two frames
\* for each chunk, the second shorter than the chunk size
C33_Witness ==
    /\ stream.stage = "done"
    /\ Len(stream.audio) = 2
    /\ \A i \in DOMAIN stream.audio : Len(stream.audio[i]) = 3
    /\ Len(MediaPayloads) = 4

\* C34: every response task that was launched eventually ends: it returns,
\* fails, or its cancellation is delivered.
C34_EveryTaskEnds ==
    \A t \in 1..MaxTask : (t \in DOMAIN tasks) ~> (t \in DOMAIN tasks /\ TaskDone(tasks, t))

\* two responses were launched and both have ended, in different ways
C34_Witness ==
    /\ Len(tasks) = 2
    /\ TaskDone(tasks, 1) /\ TaskDone(tasks, 2)
    /\ tasks[1].pc # tasks[2].pc

\* C35: a start, stop or unrecognized event for a registered session changes
\* nothing of it: the session stays registered under the same id, its fields
\* (response task slot, pending marks, mark counter, history, audio buffer)
\* are the same, no task is cancelled or ended, and no frame is written.
C35_LogOnlyEventsChangeNothing ==
    [][\A c \in Conns, sid \in Sids :
         (/\ exists(call_states, sid)
          /\ RecvStart(c, sid) \/ RecvStop(c, sid) \/ RecvUnknown(c, sid))
         => /\ exists(call_states', sid)
            /\ call_states'[sid] = call_states[sid]
            /\ objs'[call_states[sid]] = objs[call_states[sid]]
            /\ tasks' = tasks
            /\ wire' = wire]_vars

\* a stop event was processed for a session that is still registered, with
\* a response under way, a mark pending, a counter above 0 and a history
C35_Witness ==
    \E o \in stop_seen :
        /\ Registered(o)
        /\ objs[o].current_tts_task # 0
        /\ Running(objs[o].current_tts_task)
        /\ objs[o].pending_marks # {}
        /\ objs[o].mark_id > 0
        /\ objs[o].history # <<>>

\* C36: in every session, whether registered or removed, the time of the
\* last speech is set exactly when the audio buffer holds something; a failed
\* transcription and a payload that fails to decode keep it so.
C36_TimestampIffBuffer ==
    \A o \in DOMAIN objs :
        objs[o].last_speech_time # NoTime <=> objs[o].audio_buffer # <<>>

\* a transcription was submitted and failed: no connection awaits one any
\* more, and the registered session still holds the utterance and its time
C36_Witness ==
    \E o \in DOMAIN objs :
        /\ Registered(o)
        /\ objs[o].submitted
        /\ \A c \in Conns : conns[c].pc = "recv"
        /\ Len(objs[o].audio_buffer) = 2
        /\ objs[o].last_speech_time # NoTime

\* C37: when a dispatch loop that carried frames of several stream ids
\* exits, every session that loop created has left the registry, not only
\* the session of the id seen last (stated for a loop whose last frame
\* carried a stream id).
C37_ExitRemovesEveryCreated ==
    [][\A c \in Conns :
         (/\ conns[c].pc # "closed" /\ conns'[c].pc = "closed"
          /\ conns'[c].stream_sid # NoSid)
         => \A o \in DOMAIN objs :
               (Registered(o) /\ objs[o].created_by = c)
               => \A s \in CallSids : call_states'[s] # o]_vars

\* C38: a barge-in that cancels a response does not touch the history: the
\* pair of the interrupted turn, appended before the response was launched,
\* is still the end of the session's history after the step.
C38_BargeInKeepsHistory ==
    [][\A c \in Conns, sid \in Sids, p \in Payloads :
         (/\ RecvMedia(c, sid, p)
          /\ exists(call_states, sid)
          /\ BargeIn(tasks, objs[call_states[sid]]))
         => objs'[call_states[sid]].history = objs[call_states[sid]].history]_vars

\* C39: a session that enters the registry is a new object: mark counter 0,
\* no pending mark, no response task, empty history, and an audio buffer that
\* is empty or holds the one speech chunk of the frame that created it; no
\* task refers to it. This holds too when the id was registered and removed
\* before: nothing of the earlier session is carried over.
C39_CreatedSessionIsFresh ==
    [][\A s \in Sids :
         (~exists(call_states, s) /\ exists(call_states', s))
         => LET o == call_states'[s] IN
            /\ o \notin DOMAIN objs
            /\ objs'[o].mark_id = 0
            /\ objs'[o].pending_marks = {}
            /\ objs'[o].current_tts_task = 0
            /\ objs'[o].history = <<>>
            /\ \/ objs'[o].audio_buffer = <<>> /\ objs'[o].last_speech_time = NoTime
               \/ \E c \in Conns, p \in SpeechChunks :
                      /\ RecvMedia(c, s, p)
                      /\ objs'[o].audio_buffer = <<p>>
            /\ \A t \in DOMAIN tasks' : tasks'[t].call_state # o]_vars

\* a session had a turn (a mark id issued and still pending) and was
\* removed; its id is registered again, by the other connection, with a
\* session as constructed
C39_Witness ==
    /\ Len(objs) = 2
    /\ ~Registered(1)
    /\ objs[1].mark_id = 1
    /\ objs[1].pending_marks # {}
    /\ objs[1].current_tts_task # 0
    /\ Registered(2)
    /\ objs[2].stream_sid = objs[1].stream_sid
    /\ objs[2].created_by # objs[1].created_by
    /\ objs[2].mark_id = 0
    /\ objs[2].pending_marks = {}
    /\ objs[2].current_tts_task = 0
    /\ objs[2].history = <<>>
    /\ objs[2].audio_buffer = <<>>
====
